---- MODULE Spec2Model ----
(***************************************************************************)
(* Rule classification and multi-stage deduplication/optimization engine   *)
(* of scripts/smart_rule_processor.py with config/settings.py.             *)
(*                                                                         *)
(* A rule is its text: a sequence of one-character strings.  Every stage   *)
(* of the pipeline re-derives what it needs (domain, category, score) from *)
(* the text, as the Python code does; there is no stored "kind".           *)
(***************************************************************************)
EXTENDS Integers, Sequences, FiniteSets, TLC

(***************************************************************************)
(* Bounds of the model.                                                    *)
(*                                                                         *)
(* MaxLen bounds the number of rules handed to the deduplicator.  The      *)
(* size thresholds and the caps are literals of the source (10000, 1000,   *)
(* 5000) and Config values (3500000, 5000000, 5000000, 20000000) that no   *)
(* bounded input reaches; the model keeps every comparison the code makes  *)
(* with them and scales the numbers so that inputs of MaxLen rules fall on *)
(* both sides of each comparison.                                          *)
(***************************************************************************)
MaxLen == 3

\* _subdomain_optimize: "if len(rules) < 10000: return rules"
SUBDOMAIN_MIN_RULES == 3

\* SecondaryOptimizer.optimize: "len(rules) < 1000"
SECONDARY_MIN_RULES == 2

\* _merge_similar_rules: "if len(rules) < 5000: return rules"
MERGE_MIN_RULES == 2

\* Config.MAX_ADBLOCK_RULES, MAX_HOSTS_RULES, MAX_DOMAIN_RULES, MAX_TOTAL_RULES
MAX_ADBLOCK_RULES == 2

MAX_HOSTS_RULES == 1

MAX_DOMAIN_RULES == 1

MAX_TOTAL_RULES == 2

\* _parse_contents: "if rule_count % 500000 == 0:" before its timeout check
PARSE_CHECK_INTERVAL == 2

(***************************************************************************)
(* Config values the stages read (config/settings.py).                     *)
(***************************************************************************)
MIN_DOMAIN_LENGTH == 3

MAX_DOMAIN_LENGTH == 255

MIN_RULE_PRIORITY == 0

PARSE_MAX_LINE_LENGTH == 1000

SKIP_COMMENT_LINES == TRUE

\* _save_partial_results: "self.all_rules[:100000]"
PARTIAL_MAX_RULES == 100000

HASH_DEDUP_ENABLED == TRUE

DOMAIN_DEDUP_ENABLED == TRUE

SUBDOMAIN_OPTIMIZATION == TRUE

ENABLE_RULE_VALIDATION == TRUE

ENABLE_SECONDARY_OPTIMIZATION == TRUE

REMOVE_EXPIRED_DOMAINS == TRUE

MERGE_SIMILAR_RULES == TRUE

SORT_BY_PRIORITY == TRUE

SORT_BY_LENGTH == TRUE

(***************************************************************************)
(* Python str operations on sequences of characters.                       *)
(***************************************************************************)
\* Python's None (no text is a sequence holding a four-character element).
None == <<"None">>

LowerLetters ==
    {"a","b","c","d","e","f","g","h","i","j","k","l","m",
     "n","o","p","q","r","s","t","u","v","w","x","y","z"}

UpperLetters ==
    {"A","B","C","D","E","F","G","H","I","J","K","L","M",
     "N","O","P","Q","R","S","T","U","V","W","X","Y","Z"}

Digits == {"0","1","2","3","4","5","6","7","8","9"}

Letters == LowerLetters \cup UpperLetters

AlphaNum == Letters \cup Digits

\* str.split() with no argument splits on runs of whitespace.
Whitespace == {" ", "\t"}

UpperSeq ==
    <<"A","B","C","D","E","F","G","H","I","J","K","L","M",
      "N","O","P","Q","R","S","T","U","V","W","X","Y","Z">>

LowerSeq ==
    <<"a","b","c","d","e","f","g","h","i","j","k","l","m",
      "n","o","p","q","r","s","t","u","v","w","x","y","z">>

\* str.lower() on one character.
LowerChar(c) ==
    IF c \in UpperLetters
    THEN LowerSeq[CHOOSE i \in 1..26 : UpperSeq[i] = c]
    ELSE c

\* str.lower()
Lower(s) == [i \in 1..Len(s) |-> LowerChar(s[i])]

\* s.startswith(p)
StartsWith(s, p) == Len(s) >= Len(p) /\ SubSeq(s, 1, Len(p)) = p

\* s.endswith(p)
EndsWith(s, p) == Len(s) >= Len(p) /\ SubSeq(s, Len(s) - Len(p) + 1, Len(s)) = p

\* p in s
Contains(s, p) ==
    \E i \in 1..(Len(s) - Len(p) + 1) : SubSeq(s, i, i + Len(p) - 1) = p

\* s[n:]
Drop(s, n) == IF n >= Len(s) THEN <<>> ELSE SubSeq(s, n + 1, Len(s))

\* s[:n]
Take(s, n) == IF n >= Len(s) THEN s ELSE SubSeq(s, 1, n)

\* s.split(sep) for a one-character separator: the pieces between separators.
RECURSIVE SplitOn(_, _)
SplitOn(s, sep) ==
    IF \A i \in 1..Len(s) : s[i] # sep
    THEN <<s>>
    ELSE LET k == CHOOSE i \in 1..Len(s) :
                     s[i] = sep /\ \A j \in 1..(i - 1) : s[j] # sep
         IN  <<SubSeq(s, 1, k - 1)>> \o SplitOn(Drop(s, k), sep)

\* s.split(): the non-empty pieces between runs of whitespace.
RECURSIVE SplitWhitespace(_)
SplitWhitespace(s) ==
    IF s = <<>> THEN <<>>
    ELSE IF s[1] \in Whitespace THEN SplitWhitespace(Tail(s))
    ELSE LET n == IF \A i \in 1..Len(s) : s[i] \notin Whitespace
                  THEN Len(s)
                  ELSE (CHOOSE i \in 1..Len(s) :
                            s[i] \in Whitespace
                            /\ \A j \in 1..(i - 1) : s[j] \notin Whitespace) - 1
         IN  <<SubSeq(s, 1, n)>> \o SplitWhitespace(Drop(s, n))

\* sep.join(parts)
RECURSIVE Join(_, _)
Join(parts, sep) ==
    IF parts = <<>> THEN <<>>
    ELSE IF Len(parts) = 1 THEN parts[1]
    ELSE parts[1] \o <<sep>> \o Join(Tail(parts), sep)

\* The elements of a sequence.
Range(s) == {s[i] : i \in 1..Len(s)}

\* [x for x in s if Keep(x)]
RECURSIVE FilterSeq(_, _)
FilterSeq(s, keep) ==
    IF s = <<>> THEN <<>>
    ELSE IF Head(s) \in keep
         THEN <<Head(s)>> \o FilterSeq(Tail(s), keep)
         ELSE FilterSeq(Tail(s), keep)

(***************************************************************************)
(* The compiled regular expressions.                                       *)
(***************************************************************************)
\* [a-zA-Z0-9]([a-zA-Z0-9\-]{0,61}[a-zA-Z0-9])?  : one label before a dot
IsLabel(l) ==
    /\ Len(l) >= 1
    /\ Len(l) <= 63
    /\ l[1] \in AlphaNum
    /\ l[Len(l)] \in AlphaNum
    /\ \A i \in 1..Len(l) : l[i] \in AlphaNum \cup {"-"}

\* DOMAIN_PATTERN.match(s):
\* ^([a-zA-Z0-9]([a-zA-Z0-9\-]{0,61}[a-zA-Z0-9])?\.)+[a-zA-Z]{2,}$
DOMAIN_PATTERN(s) ==
    LET parts == SplitOn(s, ".")
        n     == Len(parts)
    IN  /\ n >= 2
        /\ \A i \in 1..(n - 1) : IsLabel(parts[i])
        /\ Len(parts[n]) >= 2
        /\ \A i \in 1..Len(parts[n]) : parts[n][i] \in Letters

ZeroIp == <<"0",".","0",".","0",".","0">>

LocalIp == <<"1","2","7",".","0",".","0",".","1">>

\* rule.startswith(('0.0.0.0 ', '127.0.0.1 '))
StartsWithHostsPrefix(rule) ==
    StartsWith(rule, ZeroIp \o <<" ">>) \/ StartsWith(rule, LocalIp \o <<" ">>)

\* rule[2:].split('^')[0]
AdblockDomainPart(rule) == SplitOn(Drop(rule, 2), "^")[1]

(***************************************************************************)
(* SmartRuleParser                                                         *)
(***************************************************************************)
INVALID_CHARS ==
    {" ", "@", "!", "#", "$", "%", "^", "&", "*", "(", ")", "=", "+", "[", "]",
     "{", "}", "|", "\\", ";", ":", "'", "\"", "<", ">", ",", "?", "/"}

is_valid_domain(domain) ==
    /\ domain # <<>>
    /\ Len(domain) >= MIN_DOMAIN_LENGTH
    /\ Len(domain) <= MAX_DOMAIN_LENGTH
    /\ ~Contains(domain, <<".", ".">>)
    /\ ~StartsWith(domain, <<".">>)
    /\ ~EndsWith(domain, <<".">>)
    /\ \A i \in 1..Len(domain) : domain[i] \notin INVALID_CHARS

\* A validity test that does not look at the domain of a hosts line.
is_valid_rule_hosts_unchecked(rule) ==
    IF Contains(rule, <<" ">>) /\ ~(StartsWith(rule, ZeroIp) \/ StartsWith(rule, LocalIp))
    THEN FALSE
    ELSE IF StartsWith(rule, <<"|", "|">>) /\ Contains(rule, <<"^">>)
    THEN is_valid_domain(AdblockDomainPart(rule))
    ELSE IF StartsWithHostsPrefix(rule)
    THEN TRUE
    ELSE IF DOMAIN_PATTERN(rule)
    THEN is_valid_domain(rule)
    ELSE TRUE

is_valid_rule(rule) ==
    IF Contains(rule, <<" ">>) /\ ~(StartsWith(rule, ZeroIp) \/ StartsWith(rule, LocalIp))
    THEN FALSE
    ELSE IF StartsWith(rule, <<"|", "|">>) /\ Contains(rule, <<"^">>)
    THEN is_valid_domain(AdblockDomainPart(rule))
    ELSE IF StartsWithHostsPrefix(rule) /\ Len(SplitWhitespace(rule)) >= 2
    THEN is_valid_domain(SplitWhitespace(rule)[2])
    ELSE IF DOMAIN_PATTERN(rule)
    THEN is_valid_domain(rule)
    ELSE TRUE

\* The characters str.strip() removes from both ends, among those a
\* downloaded text is written with here.
StripChars == {" ", "\t", "\n", "\r", "\f"}

\* line.strip()
Strip(s) ==
    LET kept == {i \in 1..Len(s) : s[i] \notin StripChars}
    IN  IF kept = {} THEN <<>>
        ELSE SubSeq(s, CHOOSE i \in kept : \A j \in 1..(i - 1) : s[j] \in StripChars,
                       CHOOSE i \in kept : \A j \in (i + 1)..Len(s) : s[j] \in StripChars)

\* A parser that hands back the line as it came, without line.strip().
parse_line_unstripped(raw) ==
    IF raw = <<>> \/ (SKIP_COMMENT_LINES /\ raw[1] \in {"!", "#"})
    THEN None
    ELSE IF Len(raw) > PARSE_MAX_LINE_LENGTH
    THEN None
    ELSE IF ~is_valid_rule(raw)
    THEN None
    ELSE raw

\* SmartRuleParser.parse_line: the retained text, or None
parse_line(raw) ==
    LET line == Strip(raw)
    IN  IF line = <<>> \/ (SKIP_COMMENT_LINES /\ line[1] \in {"!", "#"})
        THEN None
        ELSE IF Len(line) > PARSE_MAX_LINE_LENGTH
        THEN None
        ELSE IF ~is_valid_rule(line)
        THEN None
        ELSE line

(***************************************************************************)
(* MultiStageDeduplicator                                                  *)
(***************************************************************************)
\* hashlib.md5(rule.encode()).hexdigest(): the digest is modelled as a
\* collision-free function of the text (equal digests iff equal texts).
md5(rule) == <<"md5", rule>>

RECURSIVE HashLoop(_, _, _)
HashLoop(rules, seen, unique_rules) ==
    IF rules = <<>> THEN unique_rules
    ELSE LET rule      == Head(rules)
             rule_hash == md5(rule)
         IN  IF rule_hash \notin seen
             THEN HashLoop(Tail(rules), seen \cup {rule_hash},
                           Append(unique_rules, rule))
             ELSE HashLoop(Tail(rules), seen, unique_rules)

\* A deduplicator that keeps the last occurrence of a text instead of the
\* first (the loop run from the end).
RECURSIVE _hash_deduplicate_keep_last(_)
_hash_deduplicate_keep_last(rules) ==
    IF rules = <<>> THEN <<>>
    ELSE IF \E i \in 2..Len(rules) : rules[i] = Head(rules)
         THEN _hash_deduplicate_keep_last(Tail(rules))
         ELSE <<Head(rules)>> \o _hash_deduplicate_keep_last(Tail(rules))

_hash_deduplicate(rules) == HashLoop(rules, {}, <<>>)

_extract_domain(rule) ==
    IF StartsWith(rule, <<"|", "|">>) /\ Contains(rule, <<"^">>)
    THEN AdblockDomainPart(rule)
    ELSE IF StartsWithHostsPrefix(rule)
    THEN (IF Len(SplitWhitespace(rule)) >= 2 THEN SplitWhitespace(rule)[2] ELSE None)
    ELSE IF DOMAIN_PATTERN(rule)
    THEN rule
    ELSE None

\* "if domain:" is false for None and for the empty string.
HasDomain(rule) == _extract_domain(rule) # None /\ _extract_domain(rule) # <<>>

_is_more_general(rule1, rule2) ==
    IF Contains(rule1, <<"*">>) /\ ~Contains(rule2, <<"*">>)
    THEN TRUE
    ELSE IF StartsWith(rule1, <<"|", "|">>) /\ ~StartsWith(rule2, <<"|", "|">>)
    THEN TRUE
    ELSE IF Len(rule1) < Len(rule2)
    THEN TRUE
    ELSE FALSE

\* A dict as the sequence of its items in insertion order.
DictHas(d, key) == \E i \in 1..Len(d) : d[i].key = key

DictGet(d, key) == d[CHOOSE i \in 1..Len(d) : d[i].key = key].value

\* d[key] = value: a new key goes last, a present key keeps its place.
DictSet(d, key, value) ==
    IF DictHas(d, key)
    THEN [i \in 1..Len(d) |->
             IF d[i].key = key THEN [key |-> key, value |-> value] ELSE d[i]]
    ELSE Append(d, [key |-> key, value |-> value])

\* list(d.values())
DictValues(d) == [i \in 1..Len(d) |-> d[i].value]

\* list(d.keys())
DictKeys(d) == [i \in 1..Len(d) |-> d[i].key]

\* The loop of _domain_deduplicate: <<domain_rules, other_rules>>.
RECURSIVE DomainLoop(_, _, _)
DomainLoop(rules, domain_rules, other_rules) ==
    IF rules = <<>> THEN <<domain_rules, other_rules>>
    ELSE LET rule   == Head(rules)
             domain == _extract_domain(rule)
         IN  IF HasDomain(rule)
             THEN IF ~DictHas(domain_rules, domain)
                  THEN DomainLoop(Tail(rules),
                                  DictSet(domain_rules, domain, rule), other_rules)
                  ELSE IF _is_more_general(rule, DictGet(domain_rules, domain))
                  THEN DomainLoop(Tail(rules),
                                  DictSet(domain_rules, domain, rule), other_rules)
                  ELSE DomainLoop(Tail(rules), domain_rules, other_rules)
             ELSE DomainLoop(Tail(rules), domain_rules, Append(other_rules, rule))

\* A reducer whose dict is keyed by the rule text instead of the domain:
\* nothing is grouped.
_domain_deduplicate_by_text(rules) ==
    FilterSeq(rules, {r \in Range(rules) : HasDomain(r)})
    \o FilterSeq(rules, {r \in Range(rules) : ~HasDomain(r)})

\* A reducer that returns list(domain_rules.values()) without other_rules.
_domain_deduplicate_drop_other(rules) == DictValues(DomainLoop(rules, <<>>, <<>>)[1])

\* A reducer that writes every domain anew as ||domain^ instead of
\* returning the rule kept for it.
_domain_deduplicate_rewritten(rules) ==
    LET r == DomainLoop(rules, <<>>, <<>>)
    IN  [i \in 1..Len(DictKeys(r[1])) |-> <<"|", "|">> \o DictKeys(r[1])[i] \o <<"^">>]
        \o r[2]

_domain_deduplicate(rules) ==
    LET r == DomainLoop(rules, <<>>, <<>>)
    IN  DictValues(r[1]) \o r[2]

\* The first loop of _subdomain_optimize: <<domain_to_rule, other_rules>>.
RECURSIVE SubdomainLoop(_, _, _)
SubdomainLoop(rules, domain_to_rule, other_rules) ==
    IF rules = <<>> THEN <<domain_to_rule, other_rules>>
    ELSE LET rule == Head(rules)
         IN  IF HasDomain(rule)
             THEN SubdomainLoop(Tail(rules),
                                DictSet(domain_to_rule, _extract_domain(rule), rule),
                                other_rules)
             ELSE SubdomainLoop(Tail(rules), domain_to_rule, Append(other_rules, rule))

\* The parents with the loop started one label too late, "range(2, ...)":
\* the nearest parent is never tested.
ParentsSkipNearest(domain) ==
    LET parts == SplitOn(domain, ".")
    IN  {Join(Drop(parts, i), ".") : i \in 2..(Len(parts) - 1)}

\* "for i in range(1, len(parts)): parent = '.'.join(parts[i:])"
Parents(domain) ==
    LET parts == SplitOn(domain, ".")
    IN  {Join(Drop(parts, i), ".") : i \in 1..(Len(parts) - 1)}

\* The test the other way round: the domain is a parent of some key of
\* domain_to_rule.
is_parent_domain(domain, domain_to_rule) ==
    \E d \in Range(DictKeys(domain_to_rule)) : domain \in Parents(d)

\* is_subdomain: some parent is a key of domain_to_rule.
is_subdomain(domain, domain_to_rule) ==
    \E parent \in Parents(domain) : DictHas(domain_to_rule, parent)

\* optimized_domains, a Python set.
optimized_domains(domain_to_rule) ==
    {d \in Range(DictKeys(domain_to_rule)) : ~is_subdomain(d, domain_to_rule)}

\* The orders in which iterating a Python set of strings can yield its
\* elements: str hashes are salted per process, so any order is possible.
SetOrders(S) ==
    {o \in [1..Cardinality(S) -> S] : \A i, j \in 1..Cardinality(S) : i # j => o[i] # o[j]}

\* An optimizer that tests a parent against the domains kept so far, in
\* input order, instead of against the whole of domain_to_rule.
RECURSIVE IncrementalLoop(_, _, _)
IncrementalLoop(rules, kept, other_rules) ==
    IF rules = <<>> THEN kept \o other_rules
    ELSE LET rule == Head(rules)
         IN  IF ~HasDomain(rule)
             THEN IncrementalLoop(Tail(rules), kept, Append(other_rules, rule))
             ELSE IF \E k \in Range(kept) :
                        _extract_domain(k) \in Parents(_extract_domain(rule))
                  THEN IncrementalLoop(Tail(rules), kept, other_rules)
                  ELSE IncrementalLoop(Tail(rules), Append(kept, rule), other_rules)

_subdomain_optimize_incremental(rules) ==
    IF Len(rules) < SUBDOMAIN_MIN_RULES
    THEN {rules}
    ELSE {IncrementalLoop(rules, <<>>, <<>>)}

\* The stage with its size test the other way round: it runs on the inputs
\* below the threshold and returns the others as they are.
_subdomain_optimize_small_only(rules) ==
    IF Len(rules) >= SUBDOMAIN_MIN_RULES
    THEN {rules}
    ELSE LET r              == SubdomainLoop(rules, <<>>, <<>>)
             domain_to_rule == r[1]
             other_rules    == r[2]
         IN  {[i \in 1..Len(o) |-> DictGet(domain_to_rule, o[i])] \o other_rules :
                  o \in SetOrders(optimized_domains(domain_to_rule))}

\* Every result _subdomain_optimize can return for rules.  (The
\* domain_tree built at lines 377-385 is never read and is left out.)
_subdomain_optimize(rules) ==
    IF Len(rules) < SUBDOMAIN_MIN_RULES
    THEN {rules}
    ELSE LET r              == SubdomainLoop(rules, <<>>, <<>>)
             domain_to_rule == r[1]
             other_rules    == r[2]
         IN  {[i \in 1..Len(o) |-> DictGet(domain_to_rule, o[i])] \o other_rules :
                  o \in SetOrders(optimized_domains(domain_to_rule))}

HIGH_PRIORITY_KEYWORDS ==
    << <<"a","d">>,
       <<"a","d","s">>,
       <<"a","d","v","e","r","t">>,
       <<"t","r","a","c","k">>,
       <<"t","r","a","c","k","e","r">>,
       <<"a","n","a","l","y","t","i","c","s">>,
       <<"c","l","i","c","k">>,
       <<"b","a","n","n","e","r">>,
       <<"p","o","p","u","p">>,
       <<"s","p","o","n","s","o","r">>,
       <<"a","f","f","i","l","i","a","t","e">>,
       <<"d","o","u","b","l","e","c","l","i","c","k">>,
       <<"g","o","o","g","l","e","a","d">>,
       <<"f","a","c","e","b","o","o","k",".","c","o","m","/","t","r">>,
       <<"m","e","t","r","i","c","s">>,
       <<"p","i","x","e","l">>,
       <<"b","e","a","c","o","n">>,
       <<"c","o","o","k","i","e">>,
       <<"a","d","s","y","s","t","e","m">>,
       <<"a","d","s","e","r","v","e","r">>,
       <<"a","d","s","e","r","v","i","c","e">>,
       <<"a","d","v","e","r","t","i","s","e">>,
       <<"m","a","r","k","e","t","i","n","g">>,
       <<"m","o","n","e","t","i","z","e">>,
       <<"p","r","o","m","o">>,
       <<"a","f","f","i","l","i","a","t","e">>,
       <<"s","p","a","m">>,
       <<"m","a","l","w","a","r","e">>,
       <<"p","h","i","s","h","i","n","g">>,
       <<"s","c","a","m">> >>

MEDIUM_PRIORITY_KEYWORDS ==
    << <<"a","n","a","l","y","t","i","c">>,
       <<"s","t","a","t","i","s","t","i","c">>,
       <<"m","e","a","s","u","r","e">>,
       <<"c","o","u","n","t">>,
       <<"l","o","g">>,
       <<"r","e","c","o","r","d">>,
       <<"w","i","d","g","e","t">>,
       <<"p","l","u","g","i","n">>,
       <<"e","x","t","e","n","s","i","o","n">>,
       <<"s","c","r","i","p","t">>,
       <<"c","o","d","e">>,
       <<"j","s">>,
       <<"j","a","v","a","s","c","r","i","p","t">> >>

LOW_PRIORITY_KEYWORDS ==
    << <<"c","d","n">>,
       <<"c","l","o","u","d">>,
       <<"s","e","r","v","i","c","e">>,
       <<"a","p","i">>,
       <<"g","a","t","e","w","a","y">>,
       <<"e","n","d","p","o","i","n","t">>,
       <<"s","t","a","t","i","c">>,
       <<"a","s","s","e","t">>,
       <<"r","e","s","o","u","r","c","e">> >>

\* "for keyword in keywords: if keyword in rule_lower: ... break"
AnyKeyword(keywords, rule_lower) ==
    \E i \in 1..Len(keywords) : Contains(rule_lower, keywords[i])

\* Config.get_priority_score
get_priority_score(rule) ==
    LET rule_lower == Lower(rule)
    IN  (IF AnyKeyword(HIGH_PRIORITY_KEYWORDS, rule_lower) THEN 3 ELSE 0)
        + (IF AnyKeyword(MEDIUM_PRIORITY_KEYWORDS, rule_lower) THEN 2 ELSE 0)
        + (IF AnyKeyword(LOW_PRIORITY_KEYWORDS, rule_lower) THEN 1 ELSE 0)
        + (IF StartsWith(rule, <<"|", "|">>) /\ EndsWith(rule, <<"^">>) THEN 2
           ELSE IF Contains(rule, <<"#", "#">>) THEN 1
           ELSE 0)

(***************************************************************************)
(* AdvancedRuleOptimizer                                                   *)
(***************************************************************************)
\* A priority filter that lets every rule through.
_filter_by_priority_keep_all(rules, floor) == rules

\* _filter_by_priority, with floor the value of Config.MIN_RULE_PRIORITY
_filter_by_priority(rules, floor) ==
    FilterSeq(rules, {r \in Range(rules) : get_priority_score(r) >= floor})

_validate_rules(rules) ==
    FilterSeq(rules, {r \in Range(rules) : is_valid_rule(r)})

SPECIAL_CHARS == {"*", "^", "|", "#", "!"}

\* A quality test that looks at the length and the special characters only,
\* not at the labels of the domain.
_is_low_quality_without_labels(rule) ==
    \/ Len(rule) < 3
    \/ Len(rule) > 500
    \/ Cardinality({i \in 1..Len(rule) : rule[i] \in SPECIAL_CHARS}) > 5

_is_low_quality(rule) ==
    IF Len(rule) < 3 \/ Len(rule) > 500
    THEN TRUE
    ELSE IF Cardinality({i \in 1..Len(rule) : rule[i] \in SPECIAL_CHARS}) > 5
    THEN TRUE
    ELSE IF /\ StartsWith(rule, <<"|", "|">>)
            /\ Contains(rule, <<"^">>)
            /\ Len(SplitOn(AdblockDomainPart(rule), ".")) > 5
    THEN TRUE
    ELSE FALSE

_filter_by_quality(rules) ==
    FilterSeq(rules, {r \in Range(rules) : ~_is_low_quality(r)})

\* The three branches of the classification loop of _classify_and_limit
\* (and of RuleOutputManager.save_results): first match wins.
IsAdblockRule(rule) ==
    \/ StartsWith(rule, <<"|", "|">>)
    \/ Contains(rule, <<"#", "#">>)
    \/ StartsWith(rule, <<"|">>)

IsHostsRule(rule) ==
    /\ ~IsAdblockRule(rule)
    /\ (StartsWith(rule, ZeroIp) \/ StartsWith(rule, LocalIp))

IsDomainRule(rule) ==
    /\ ~IsAdblockRule(rule)
    /\ ~IsHostsRule(rule)
    /\ DOMAIN_PATTERN(rule)

adblock_rules(rules) == FilterSeq(rules, {r \in Range(rules) : IsAdblockRule(r)})

hosts_rules(rules) == FilterSeq(rules, {r \in Range(rules) : IsHostsRule(r)})

domain_rules(rules) == FilterSeq(rules, {r \in Range(rules) : IsDomainRule(r)})

\* list.sort(key=...) is stable: x goes after every element whose key is
\* not greater than its own.
RECURSIVE InsertByKey(_, _, _)
InsertByKey(sorted, x, key) ==
    IF sorted = <<>> THEN <<x>>
    ELSE IF key[Head(sorted)] <= key[x]
         THEN <<Head(sorted)>> \o InsertByKey(Tail(sorted), x, key)
         ELSE <<x>> \o sorted

RECURSIVE StableSortLoop(_, _, _)
StableSortLoop(todo, sorted, key) ==
    IF todo = <<>> THEN sorted
    ELSE StableSortLoop(Tail(todo), InsertByKey(sorted, Head(todo), key), key)

\* s.sort(key=...), with key a function on the elements of s
StableSort(s, key) == StableSortLoop(s, <<>>, key)

\* result.sort(key=lambda x: Config.get_priority_score(x), reverse=True):
\* descending, equal keys keep their order.
SortByPriority(result) ==
    StableSort(result, [r \in Range(result) |-> 0 - get_priority_score(r)])

\* result.sort(key=lambda x: len(x))
SortByLength(result) ==
    StableSort(result, [r \in Range(result) |-> Len(r)])

\* The merged list with the three bucket slices left out: only the
\* global cap is applied.
LimitedResultNoBucketCaps(rules) ==
    Take(adblock_rules(rules) \o hosts_rules(rules) \o domain_rules(rules),
         MAX_TOTAL_RULES)

\* The merged list with a fourth bucket for the rules no branch of the
\* classification takes, merged after the other three.
LimitedResultKeepUnclassified(rules) ==
    Take(Take(adblock_rules(rules), MAX_ADBLOCK_RULES)
         \o Take(hosts_rules(rules), MAX_HOSTS_RULES)
         \o Take(domain_rules(rules), MAX_DOMAIN_RULES)
         \o FilterSeq(rules, {r \in Range(rules) :
                ~IsAdblockRule(r) /\ ~IsHostsRule(r) /\ ~IsDomainRule(r)}),
         MAX_TOTAL_RULES)

\* result after "result = result[:Config.MAX_TOTAL_RULES]", before sorting
LimitedResult(rules) ==
    Take(Take(adblock_rules(rules), MAX_ADBLOCK_RULES)
         \o Take(hosts_rules(rules), MAX_HOSTS_RULES)
         \o Take(domain_rules(rules), MAX_DOMAIN_RULES),
         MAX_TOTAL_RULES)

\* The limiter with the two sorts in the other order: by length, then by
\* priority.
_classify_and_limit_length_first(rules) ==
    LET result    == LimitedResult(rules)
        by_length == IF SORT_BY_LENGTH THEN SortByLength(result) ELSE result
    IN  IF SORT_BY_PRIORITY THEN SortByPriority(by_length) ELSE by_length

_classify_and_limit(rules) ==
    LET result   == LimitedResult(rules)
        by_prio  == IF SORT_BY_PRIORITY THEN SortByPriority(result) ELSE result
    IN  IF SORT_BY_LENGTH THEN SortByLength(by_prio) ELSE by_prio

\* The filters of AdvancedRuleOptimizer.optimize that run before
\* _classify_and_limit.
FilterStages(rules, floor) ==
    LET by_priority == IF floor > 0 THEN _filter_by_priority(rules, floor) ELSE rules
        validated   == IF ENABLE_RULE_VALIDATION THEN _validate_rules(by_priority)
                       ELSE by_priority
    IN  _filter_by_quality(validated)

(***************************************************************************)
(* SecondaryOptimizer                                                      *)
(***************************************************************************)
\* re.search(r'\d{8,}', rule)
HasEightDigits(rule) ==
    \E i \in 1..(Len(rule) - 7) : \A j \in i..(i + 7) : rule[j] \in Digits

\* re.search(r'20\d{2}[01]\d[0-3]\d', rule)
HasDateShape(rule) ==
    \E i \in 1..(Len(rule) - 7) :
        /\ rule[i] = "2"
        /\ rule[i + 1] = "0"
        /\ rule[i + 2] \in Digits
        /\ rule[i + 3] \in Digits
        /\ rule[i + 4] \in {"0", "1"}
        /\ rule[i + 5] \in Digits
        /\ rule[i + 6] \in {"0", "1", "2", "3"}
        /\ rule[i + 7] \in Digits

EXPIRED_WORDS ==
    << <<"e","x","p","i","r","e","d">>, <<"o","l","d">>, <<"d","e","a","d">>,
       <<"i","n","v","a","l","i","d">>, <<"t","e","s","t">>,
       <<"e","x","a","m","p","l","e">>, <<"d","u","m","m","y">> >>

\* some pattern of expired_patterns is found by re.search(..., re.IGNORECASE)
MatchesExpired(rule) ==
    \/ HasEightDigits(rule)
    \/ HasDateShape(rule)
    \/ \E i \in 1..Len(EXPIRED_WORDS) : Contains(Lower(rule), EXPIRED_WORDS[i])

\* The pass with only the two digit patterns of expired_patterns, without
\* the seven words.
_remove_expired_domains_digits_only(rules) ==
    FilterSeq(rules, {r \in Range(rules) : ~(HasEightDigits(r) \/ HasDateShape(r))})

_remove_expired_domains(rules) ==
    FilterSeq(rules, {r \in Range(rules) : ~MatchesExpired(r)})

\* '.'.join(domain.split('.')[-2:])
BaseDomain(domain) ==
    LET parts == SplitOn(domain, ".")
    IN  Join(Drop(parts, IF Len(parts) > 2 THEN Len(parts) - 2 ELSE 0), ".")

\* Which defaultdict(list) a rule is appended to, or "other", or "none"
\* (a hosts-prefixed rule with fewer than two parts is appended nowhere).
MergeGroup(rule) ==
    IF StartsWith(rule, <<"|", "|">>) /\ Contains(rule, <<"^">>) THEN "adblock"
    ELSE IF StartsWithHostsPrefix(rule)
    THEN (IF Len(SplitWhitespace(rule)) >= 2 THEN "hosts" ELSE "none")
    ELSE IF DOMAIN_PATTERN(rule) THEN "domain"
    ELSE "other"

MergeBase(rule) ==
    IF MergeGroup(rule) = "adblock" THEN BaseDomain(AdblockDomainPart(rule))
    ELSE IF MergeGroup(rule) = "hosts" THEN BaseDomain(SplitWhitespace(rule)[2])
    ELSE BaseDomain(rule)

\* The grouping loop for one of the three dicts: base_domain -> list.
RECURSIVE GroupLoop(_, _, _)
GroupLoop(rules, group, groups) ==
    IF rules = <<>> THEN groups
    ELSE LET rule == Head(rules)
         IN  IF MergeGroup(rule) = group
             THEN LET b   == MergeBase(rule)
                      old == IF DictHas(groups, b) THEN DictGet(groups, b) ELSE <<>>
                  IN  GroupLoop(Tail(rules), group, DictSet(groups, b, Append(old, rule)))
             ELSE GroupLoop(Tail(rules), group, groups)

\* The key of "min(group_rules, key=lambda x: (len(x), 0 if '*' in x else 1))"
MergeKeyLess(a, b) ==
    \/ Len(a) < Len(b)
    \/ /\ Len(a) = Len(b)
       /\ Contains(a, <<"*">>)
       /\ ~Contains(b, <<"*">>)

\* max() in the place of min(): the first element that is less than no other.
best_rule_max(group_rules) ==
    group_rules[CHOOSE i \in 1..Len(group_rules) :
        /\ \A j \in 1..Len(group_rules) : ~MergeKeyLess(group_rules[i], group_rules[j])
        /\ \A k \in 1..(i - 1) :
               \E j \in 1..Len(group_rules) : MergeKeyLess(group_rules[k], group_rules[j])]

\* min(): the first element that no other element is less than
best_rule(group_rules) ==
    group_rules[CHOOSE i \in 1..Len(group_rules) :
        /\ \A j \in 1..Len(group_rules) : ~MergeKeyLess(group_rules[j], group_rules[i])
        /\ \A k \in 1..(i - 1) :
               \E j \in 1..Len(group_rules) : MergeKeyLess(group_rules[j], group_rules[k])]

MergedOf(groups) ==
    [i \in 1..Len(groups) |->
        IF Len(groups[i].value) = 1 THEN groups[i].value[1]
        ELSE best_rule(groups[i].value)]

\* The pass without "merged_rules.extend(other_rules)".
_merge_similar_rules_without_other(rules) ==
    IF Len(rules) < MERGE_MIN_RULES
    THEN rules
    ELSE MergedOf(GroupLoop(rules, "adblock", <<>>))
         \o MergedOf(GroupLoop(rules, "hosts", <<>>))
         \o MergedOf(GroupLoop(rules, "domain", <<>>))

_merge_similar_rules(rules) ==
    IF Len(rules) < MERGE_MIN_RULES
    THEN rules
    ELSE MergedOf(GroupLoop(rules, "adblock", <<>>))
         \o MergedOf(GroupLoop(rules, "hosts", <<>>))
         \o MergedOf(GroupLoop(rules, "domain", <<>>))
         \o FilterSeq(rules, {r \in Range(rules) : MergeGroup(r) = "other"})

\* SecondaryOptimizer.optimize
SecondaryOptimize(rules) ==
    IF ~ENABLE_SECONDARY_OPTIMIZATION \/ Len(rules) < SECONDARY_MIN_RULES
    THEN rules
    ELSE LET unexpired == IF REMOVE_EXPIRED_DOMAINS THEN _remove_expired_domains(rules)
                          ELSE rules
         IN  IF MERGE_SIMILAR_RULES THEN _merge_similar_rules(unexpired) ELSE unexpired

(***************************************************************************)
(* The three calls of SmartRuleProcessor.process on a list of rules.       *)
(***************************************************************************)
\* MultiStageDeduplicator.deduplicate: every result it can return
deduplicate(rules) ==
    LET hashed  == IF HASH_DEDUP_ENABLED THEN _hash_deduplicate(rules) ELSE rules
        reduced == IF DOMAIN_DEDUP_ENABLED THEN _domain_deduplicate(hashed) ELSE hashed
    IN  IF SUBDOMAIN_OPTIMIZATION THEN _subdomain_optimize(reduced) ELSE {reduced}

\* AdvancedRuleOptimizer.optimize
optimize(rules) == _classify_and_limit(FilterStages(rules, MIN_RULE_PRIORITY))

\* deduplicate, optimize and SecondaryOptimizer.optimize one after the
\* other: every final list the three calls can make of rules.
ProcessRules(rules) ==
    {SecondaryOptimize(optimize(d)) : d \in deduplicate(rules)}

(***************************************************************************)
(* The run: SmartRuleProcessor.process.  The rules handed to deduplicate   *)
(* (all_rules) are lines the parser retained.                              *)
(***************************************************************************)
\* Rule texts the runs draw their input from.
RuleUniverse ==
    { <<"|","|","a",".","c","o","^">>,
      <<"a",".","c","o">>,
      <<"0",".","0",".","0",".","0"," ","a",".","c","o">>,
      <<"|","|","a",".","c","o","^","*">>,
      <<"|","|","b",".","a",".","c","o","^">>,
      <<"o","l","d",".","i","o">>,
      <<"x","#","#","y">>,
      <<"|","a",".","c">>,
      <<"1","2","7",".","0",".","0",".","1",".","i","o">>,
      <<"/","a","d","/">> }

\* The rule texts of the runs that follow process from its first stage on,
\* with its timeout checks and its alarm.
ParsedSample ==
    { <<"|","|","a",".","c","o","^">>,
      <<"a",".","c","o">>,
      <<"o","l","d",".","i","o">> }

\* The sequences of at most n elements of S.
SeqsUpTo(S, n) == UNION {[1..k -> S] : k \in 0..n}

\* What _parse_contents can have appended to all_rules: lines that parse_line
\* retained.
ParsedRules(S) ==
    {s \in SeqsUpTo(S, MaxLen) : \A i \in 1..Len(s) : is_valid_rule(s[i])}

VARIABLES
    pc,                  \* the next step of the run
    all_rules,           \* self.all_rules: the parsed rules
    hash_out,            \* current_rules after _hash_deduplicate
    domain_out,          \* current_rules after _domain_deduplicate
    deduplicated_rules,  \* the result of deduplicate (after _subdomain_optimize)
    quality_out,         \* current_rules after _filter_by_quality
    optimized_rules,     \* the result of AdvancedRuleOptimizer.optimize
    final_rules,         \* the result of SecondaryOptimizer.optimize (self.final_rules)
    saved,               \* the three lists save_results writes
    started,             \* the stages of process entered so far, in order
    timed_out,           \* a call of _check_timeout has returned True
    abandoned,           \* the stage that was left part-way, or ""
    partial_rules,       \* the rules written to dist/partial_rules.txt
    returned,            \* what process returned: "True", "False", or "" so far
    content,             \* the downloaded text _parse_contents reads
    lines_parsed,        \* the number of its lines handed to parse_line so far
    line,                \* the last line handed to parse_line, or None
    parsed,              \* what parse_line returned for it
    min_rule_priority    \* Config.MIN_RULE_PRIORITY as set for the run

vars ==
    <<pc, all_rules, hash_out, domain_out, deduplicated_rules, quality_out,
      optimized_rules, final_rules, saved, started, timed_out, abandoned,
      partial_rules, returned, content, lines_parsed, line, parsed,
      min_rule_priority>>

\* The steps of a run, and "stopped" for a run that process left early.
Stages ==
    <<"download", "parse", "hash", "domain", "subdomain", "filter", "limit",
      "secondary", "output", "done", "stopped">>

\* The position of a step in the run.
StageIndex(s) == CHOOSE i \in 1..Len(Stages) : Stages[i] = s

\* The step named s has just completed: its result is set, and no later
\* step has started (no step changes the result of an earlier one).
Completed(s) == StageIndex(pc) = StageIndex(s) + 1

\* The six stages of process ("阶段1" to "阶段6"), in the order of its body.
StageOrder == <<"download", "parse", "dedup", "optimize", "secondary", "output">>

\* The stage of process a step belongs to.
StageOf(step) ==
    IF step \in {"hash", "domain", "subdomain"} THEN "dedup"
    ELSE IF step \in {"filter", "limit"} THEN "optimize"
    ELSE step

\* The steps a stage of process begins with.
FirstSteps == {"download", "parse", "hash", "filter", "secondary", "output"}

\* The steps that come right after an "if self._check_timeout(): return False".
CheckedSteps == {"parse", "hash", "filter", "secondary", "output"}

\* The state when deduplicate is called: the download and the parse are over.
Init ==
    /\ pc = "hash"
    /\ all_rules \in ParsedRules(RuleUniverse)
    /\ hash_out = <<>>
    /\ domain_out = <<>>
    /\ deduplicated_rules = <<>>
    /\ quality_out = <<>>
    /\ optimized_rules = <<>>
    /\ final_rules = <<>>
    /\ saved = <<>>
    /\ started = <<"download", "parse">>
    /\ timed_out = FALSE
    /\ abandoned = ""
    /\ partial_rules = <<>>
    /\ returned = ""
    /\ content = <<>>
    /\ lines_parsed = 0
    /\ line = None
    /\ parsed = None
    /\ min_rule_priority = MIN_RULE_PRIORITY

\* The state when process is called.
InitProcess ==
    /\ pc = "download"
    /\ all_rules = <<>>
    /\ hash_out = <<>>
    /\ domain_out = <<>>
    /\ deduplicated_rules = <<>>
    /\ quality_out = <<>>
    /\ optimized_rules = <<>>
    /\ final_rules = <<>>
    /\ saved = <<>>
    /\ started = <<>>
    /\ timed_out = FALSE
    /\ abandoned = ""
    /\ partial_rules = <<>>
    /\ returned = ""
    /\ content = <<>>
    /\ lines_parsed = 0
    /\ line = None
    /\ parsed = None
    /\ min_rule_priority = MIN_RULE_PRIORITY

\* Stage 1: _download_sources (the contents are not modelled)
DownloadSources ==
    /\ pc = "download"
    /\ started' = Append(started, "download")
    /\ pc' = "parse"
    /\ UNCHANGED <<content, lines_parsed, line, parsed, min_rule_priority>>
    /\ UNCHANGED <<all_rules, hash_out, domain_out, deduplicated_rules, quality_out,
                   optimized_rules, final_rules, saved, timed_out, abandoned,
                   partial_rules, returned>>

\* Stage 2: _parse_contents runs to its end
ParseContents ==
    /\ pc = "parse"
    /\ all_rules' \in ParsedRules(ParsedSample)
    /\ started' = Append(started, "parse")
    /\ pc' = "hash"
    /\ UNCHANGED <<content, lines_parsed, line, parsed, min_rule_priority>>
    /\ UNCHANGED <<hash_out, domain_out, deduplicated_rules, quality_out,
                   optimized_rules, final_rules, saved, timed_out, abandoned,
                   partial_rules, returned>>

\* Stage 2 cut short: the _check_timeout call inside the loop of
\* _parse_contents, made when rule_count is a multiple of the interval,
\* returns True and the loop is left; the check after the stage then returns
\* True as well and process returns False.
ParseTimeout ==
    /\ pc = "parse"
    /\ all_rules' \in {s \in ParsedRules(ParsedSample) : Len(s) % PARSE_CHECK_INTERVAL = 0}
    /\ started' = Append(started, "parse")
    /\ timed_out' = TRUE
    /\ abandoned' = "parse"
    /\ returned' = "False"
    /\ pc' = "stopped"
    /\ UNCHANGED <<content, lines_parsed, line, parsed, min_rule_priority>>
    /\ UNCHANGED <<hash_out, domain_out, deduplicated_rules, quality_out,
                   optimized_rules, final_rules, saved, partial_rules>>

\* A check whose True is not acted on: the call returns True and process
\* goes on to the next stage.
CheckTimeoutIgnored ==
    /\ pc \in CheckedSteps
    /\ timed_out' = TRUE
    /\ UNCHANGED <<content, lines_parsed, line, parsed, min_rule_priority>>
    /\ UNCHANGED <<pc, all_rules, hash_out, domain_out, deduplicated_rules,
                   quality_out, optimized_rules, final_rules, saved, started,
                   abandoned, partial_rules, returned>>

\* "if self._check_timeout(): return False" between two stages, when the
\* call returns True
CheckTimeout ==
    /\ pc \in CheckedSteps
    /\ timed_out' = TRUE
    /\ returned' = "False"
    /\ pc' = "stopped"
    /\ UNCHANGED <<content, lines_parsed, line, parsed, min_rule_priority>>
    /\ UNCHANGED <<all_rules, hash_out, domain_out, deduplicated_rules, quality_out,
                   optimized_rules, final_rules, saved, started, abandoned,
                   partial_rules>>

\* deduplicate, first stage
HashDeduplicate ==
    /\ pc = "hash"
    /\ hash_out' = IF HASH_DEDUP_ENABLED THEN _hash_deduplicate(all_rules) ELSE all_rules
    /\ started' = Append(started, "dedup")
    /\ pc' = "domain"
    /\ UNCHANGED <<content, lines_parsed, line, parsed, min_rule_priority>>
    /\ UNCHANGED <<all_rules, domain_out, deduplicated_rules, quality_out,
                   optimized_rules, final_rules, saved, timed_out, abandoned,
                   partial_rules, returned>>

\* deduplicate, second stage
DomainDeduplicate ==
    /\ pc = "domain"
    /\ domain_out' = IF DOMAIN_DEDUP_ENABLED THEN _domain_deduplicate(hash_out) ELSE hash_out
    /\ pc' = "subdomain"
    /\ UNCHANGED <<content, lines_parsed, line, parsed, min_rule_priority>>
    /\ UNCHANGED <<all_rules, hash_out, deduplicated_rules, quality_out,
                   optimized_rules, final_rules, saved, started, timed_out,
                   abandoned, partial_rules, returned>>

\* deduplicate, third stage, and its return
SubdomainOptimize ==
    /\ pc = "subdomain"
    /\ deduplicated_rules' \in
           (IF SUBDOMAIN_OPTIMIZATION THEN _subdomain_optimize(domain_out) ELSE {domain_out})
    /\ pc' = "filter"
    /\ UNCHANGED <<content, lines_parsed, line, parsed, min_rule_priority>>
    /\ UNCHANGED <<all_rules, hash_out, domain_out, quality_out,
                   optimized_rules, final_rules, saved, started, timed_out,
                   abandoned, partial_rules, returned>>

\* AdvancedRuleOptimizer.optimize up to _filter_by_quality
FilterRules ==
    /\ pc = "filter"
    /\ quality_out' = FilterStages(deduplicated_rules, min_rule_priority)
    /\ started' = Append(started, "optimize")
    /\ pc' = "limit"
    /\ UNCHANGED <<content, lines_parsed, line, parsed, min_rule_priority>>
    /\ UNCHANGED <<all_rules, hash_out, domain_out, deduplicated_rules,
                   optimized_rules, final_rules, saved, timed_out, abandoned,
                   partial_rules, returned>>

\* AdvancedRuleOptimizer.optimize: _classify_and_limit and the return
ClassifyAndLimit ==
    /\ pc = "limit"
    /\ optimized_rules' = _classify_and_limit(quality_out)
    /\ pc' = "secondary"
    /\ UNCHANGED <<content, lines_parsed, line, parsed, min_rule_priority>>
    /\ UNCHANGED <<all_rules, hash_out, domain_out, deduplicated_rules,
                   quality_out, final_rules, saved, started, timed_out,
                   abandoned, partial_rules, returned>>

\* SecondaryOptimizer.optimize, and "self.final_rules = final_rules"
Secondary ==
    /\ pc = "secondary"
    /\ final_rules' = SecondaryOptimize(optimized_rules)
    /\ started' = Append(started, "secondary")
    /\ pc' = "output"
    /\ UNCHANGED <<content, lines_parsed, line, parsed, min_rule_priority>>
    /\ UNCHANGED <<all_rules, hash_out, domain_out, deduplicated_rules,
                   quality_out, optimized_rules, saved, timed_out, abandoned,
                   partial_rules, returned>>

\* The three lists RuleOutputManager.save_results makes of rules
Classified(rules) == <<adblock_rules(rules), hosts_rules(rules), domain_rules(rules)>>

\* A last stage that reports a failure when it is handed no rule.
SaveResultsFailsOnEmpty ==
    /\ pc = "output"
    /\ saved' = Classified(final_rules)
    /\ started' = Append(started, "output")
    /\ returned' = IF final_rules = <<>> THEN "False" ELSE "True"
    /\ pc' = "done"
    /\ UNCHANGED <<content, lines_parsed, line, parsed, min_rule_priority>>
    /\ UNCHANGED <<all_rules, hash_out, domain_out, deduplicated_rules,
                   quality_out, optimized_rules, final_rules, timed_out,
                   abandoned, partial_rules>>

\* Stage 6: RuleOutputManager.save_results writes the three lists, and
\* process returns its result
SaveResults ==
    /\ pc = "output"
    /\ saved' = Classified(final_rules)
    /\ started' = Append(started, "output")
    /\ returned' = "True"
    /\ pc' = "done"
    /\ UNCHANGED <<content, lines_parsed, line, parsed, min_rule_priority>>
    /\ UNCHANGED <<all_rules, hash_out, domain_out, deduplicated_rules,
                   quality_out, optimized_rules, final_rules, timed_out,
                   abandoned, partial_rules>>

\* _save_partial_results: what it leaves in the three lists and in
\* dist/partial_rules.txt
_save_partial_results(self_final_rules, self_all_rules) ==
    IF self_final_rules # <<>>
    THEN [saved |-> Classified(self_final_rules), partial |-> <<>>]
    ELSE IF self_all_rules # <<>>
    THEN [saved |-> <<>>, partial |-> Take(self_all_rules, PARTIAL_MAX_RULES)]
    ELSE [saved |-> <<>>, partial |-> <<>>]

\* The alarm set by signal.alarm goes off while a stage from the download
\* to the secondary optimizer runs: timeout_handler raises TimeoutException
\* inside the stage, whose result is never assigned, and the handler of
\* process calls _save_partial_results and returns False.
TimeoutInStage ==
    /\ pc \in {"download", "parse", "hash", "domain", "subdomain", "filter",
               "limit", "secondary"}
    /\ started' = IF pc \in FirstSteps THEN Append(started, StageOf(pc)) ELSE started
    /\ abandoned' = StageOf(pc)
    /\ IF pc = "parse"
       THEN all_rules' \in ParsedRules(ParsedSample)
       ELSE all_rules' = all_rules
    /\ saved' = _save_partial_results(final_rules, all_rules').saved
    /\ partial_rules' = _save_partial_results(final_rules, all_rules').partial
    /\ returned' = "False"
    /\ pc' = "stopped"
    /\ UNCHANGED <<content, lines_parsed, line, parsed, min_rule_priority>>
    /\ UNCHANGED <<hash_out, domain_out, deduplicated_rules, quality_out,
                   optimized_rules, final_rules, timed_out>>

\* The alarm goes off after "self.final_rules = final_rules" and before
\* save_results is called.
TimeoutBeforeOutput ==
    /\ pc = "output"
    /\ saved' = _save_partial_results(final_rules, all_rules).saved
    /\ partial_rules' = _save_partial_results(final_rules, all_rules).partial
    /\ returned' = "False"
    /\ pc' = "stopped"
    /\ UNCHANGED <<content, lines_parsed, line, parsed, min_rule_priority>>
    /\ UNCHANGED <<all_rules, hash_out, domain_out, deduplicated_rules, quality_out,
                   optimized_rules, final_rules, started, timed_out, abandoned>>

\* The alarm goes off inside save_results, whose "except Exception" catches
\* the TimeoutException: the lists written so far stay, save_results returns
\* False and so does process.
TimeoutInSaveResults ==
    /\ pc = "output"
    /\ \E written \in 0..2 :
           saved' = [i \in 1..3 |-> IF i <= written THEN Classified(final_rules)[i]
                                    ELSE <<>>]
    /\ started' = Append(started, "output")
    /\ abandoned' = "output"
    /\ returned' = "False"
    /\ pc' = "stopped"
    /\ UNCHANGED <<content, lines_parsed, line, parsed, min_rule_priority>>
    /\ UNCHANGED <<all_rules, hash_out, domain_out, deduplicated_rules, quality_out,
                   optimized_rules, final_rules, timed_out, partial_rules>>

\* The stages from deduplicate on, in a run whose every timeout check
\* returns False and whose alarm does not go off.
Next ==
    \/ HashDeduplicate
    \/ DomainDeduplicate
    \/ SubdomainOptimize
    \/ FilterRules
    \/ ClassifyAndLimit
    \/ Secondary
    \/ SaveResults

Spec == Init /\ [][Next]_vars

\* process from its first stage on, with the timeout checks and the alarm.
NextProcess ==
    \/ DownloadSources
    \/ ParseContents
    \/ ParseTimeout
    \/ CheckTimeout
    \/ HashDeduplicate
    \/ DomainDeduplicate
    \/ SubdomainOptimize
    \/ FilterRules
    \/ ClassifyAndLimit
    \/ Secondary
    \/ SaveResults
    \/ TimeoutInStage
    \/ TimeoutBeforeOutput
    \/ TimeoutInSaveResults

SpecProcess == InitProcess /\ [][NextProcess]_vars

(***************************************************************************)
(* The parse stage line by line: _parse_contents on one downloaded text.   *)
(***************************************************************************)
\* The most lines a downloaded text is made of here.
MaxLines == 2

\* Lines the downloaded texts are made of: blank and comment lines, lines of
\* each kind of rule, lines is_valid_rule refuses, a line ending in a
\* carriage return, and lines at and over PARSE_MAX_LINE_LENGTH.
LineUniverse ==
    { <<>>,
      <<"\t"," ">>,
      <<"!"," ","c">>,
      <<"\t","#","c">>,
      <<"b","a","n","n","e","r">>,
      <<"|","|","a",".","c","o","^">>,
      <<"x","#","#","y">>,
      <<"0",".","0",".","0",".","0"," ","a",".","c","o">>,
      <<" ","a",".","c","o","\r">>,
      <<"|","a",".","c">>,
      <<"/","a","d","/">>,
      <<"b"," ","c">>,
      <<"|","|","a",".",".","c","o","^">>,
      <<"0",".","0",".","0",".","0"," ",".","a",".","c","o">>,
      [i \in 1..PARSE_MAX_LINE_LENGTH |-> "a"],
      [i \in 1..(PARSE_MAX_LINE_LENGTH + 1) |-> "a"],
      <<"a",".","c","o">> \o [i \in 1..PARSE_MAX_LINE_LENGTH |-> " "] }

\* The downloaded texts: lines joined by newlines.
Contents == {Join(ls, "\n") : ls \in SeqsUpTo(LineUniverse, MaxLines)}

\* "lines = content.split('\n')"
Lines(text) == SplitOn(text, "\n")

\* The state when _parse_contents is called on a downloaded text.
InitParse ==
    /\ pc = "parse"
    /\ content \in Contents
    /\ lines_parsed = 0
    /\ line = None
    /\ parsed = None
    /\ all_rules = <<>>
    /\ hash_out = <<>>
    /\ domain_out = <<>>
    /\ deduplicated_rules = <<>>
    /\ quality_out = <<>>
    /\ optimized_rules = <<>>
    /\ final_rules = <<>>
    /\ saved = <<>>
    /\ started = <<"download", "parse">>
    /\ timed_out = FALSE
    /\ abandoned = ""
    /\ partial_rules = <<>>
    /\ returned = ""
    /\ min_rule_priority = MIN_RULE_PRIORITY

\* One turn of "for line in lines": parse_line, and the append of what it
\* retained
ParseLine ==
    /\ pc = "parse"
    /\ lines_parsed < Len(Lines(content))
    /\ line' = Lines(content)[lines_parsed + 1]
    /\ parsed' = parse_line(line')
    /\ all_rules' = IF parsed' # None /\ parsed' # <<>>
                    THEN Append(all_rules, parsed')
                    ELSE all_rules
    /\ lines_parsed' = lines_parsed + 1
    /\ UNCHANGED <<pc, content, min_rule_priority>>
    /\ UNCHANGED <<hash_out, domain_out, deduplicated_rules, quality_out,
                   optimized_rules, final_rules, saved, started, timed_out,
                   abandoned, partial_rules, returned>>

\* The loop of _parse_contents ends and the stage returns
ParseEnd ==
    /\ pc = "parse"
    /\ lines_parsed = Len(Lines(content))
    /\ pc' = "hash"
    /\ UNCHANGED <<content, lines_parsed, line, parsed, min_rule_priority>>
    /\ UNCHANGED <<all_rules, hash_out, domain_out, deduplicated_rules, quality_out,
                   optimized_rules, final_rules, saved, started, timed_out,
                   abandoned, partial_rules, returned>>

\* The parse stage of a run whose timeout checks return False.
NextParse ==
    \/ ParseLine
    \/ ParseEnd

SpecParse == InitParse /\ [][NextParse]_vars

(***************************************************************************)
(* The stages under each setting of MIN_RULE_PRIORITY, on rules that the   *)
(* quality filter tells apart.                                             *)
(***************************************************************************)
\* The highest value MIN_RULE_PRIORITY is set to here.
MaxFloor == 1

\* The most rules handed to deduplicate here.
MaxRules == 2

\* Rule texts for the filters: too short, with six special characters, with
\* a domain of six labels, over 500 characters, and rules that score 0, 2
\* and 1.
OptimizerUniverse ==
    { <<"a","d">>,
      <<"|","|","|","|","|","|">>,
      <<"|","|","a",".","b",".","c",".","d",".","e",".","c","o","^">>,
      <<"a",".","c","o">>,
      <<"|","|","b",".","c","o","^">>,
      <<"x","#","#","y">>,
      [i \in 1..501 |-> "a"] }

\* The state when deduplicate is called, for each setting of
\* MIN_RULE_PRIORITY.
InitOptimize ==
    /\ pc = "hash"
    /\ all_rules \in {s \in SeqsUpTo(OptimizerUniverse, MaxRules) :
                          \A i \in 1..Len(s) : parse_line(s[i]) = s[i]}
    /\ min_rule_priority \in 0..MaxFloor
    /\ hash_out = <<>>
    /\ domain_out = <<>>
    /\ deduplicated_rules = <<>>
    /\ quality_out = <<>>
    /\ optimized_rules = <<>>
    /\ final_rules = <<>>
    /\ saved = <<>>
    /\ started = <<"download", "parse">>
    /\ timed_out = FALSE
    /\ abandoned = ""
    /\ partial_rules = <<>>
    /\ returned = ""
    /\ content = <<>>
    /\ lines_parsed = 0
    /\ line = None
    /\ parsed = None

SpecOptimize == InitOptimize /\ [][Next]_vars

(***************************************************************************)
(* The stages on rules whose domains form a chain of ancestors.            *)
(***************************************************************************)
\* Rule texts for the subdomain stage: a domain, a subdomain of it, a
\* subdomain of that one, a hosts entry of another domain and a rule without
\* a domain.
ChainUniverse ==
    { <<"a",".","c","o">>,
      <<"|","|","b",".","a",".","c","o","^">>,
      <<"c",".","b",".","a",".","c","o">>,
      <<"0",".","0",".","0",".","0"," ","d",".","i","o">>,
      <<"x","#","#","y">> }

\* The state when deduplicate is called on rules of the chain.
InitChain ==
    /\ pc = "hash"
    /\ all_rules \in {s \in SeqsUpTo(ChainUniverse, MaxLen) :
                          \A i \in 1..Len(s) : parse_line(s[i]) = s[i]}
    /\ min_rule_priority = MIN_RULE_PRIORITY
    /\ hash_out = <<>>
    /\ domain_out = <<>>
    /\ deduplicated_rules = <<>>
    /\ quality_out = <<>>
    /\ optimized_rules = <<>>
    /\ final_rules = <<>>
    /\ saved = <<>>
    /\ started = <<"download", "parse">>
    /\ timed_out = FALSE
    /\ abandoned = ""
    /\ partial_rules = <<>>
    /\ returned = ""
    /\ content = <<>>
    /\ lines_parsed = 0
    /\ line = None
    /\ parsed = None

SpecChain == InitChain /\ [][Next]_vars

(***************************************************************************)
(* Properties of the stages.                                               *)
(***************************************************************************)
\* The domain a rule resolves to, for the rules that have one.
DomainsOf(rules) == {_extract_domain(r) : r \in {x \in Range(rules) : HasDomain(x)}}

\* The rules of a sequence that resolve to domain d.
RulesFor(rules, d) == {r \in Range(rules) : HasDomain(r) /\ _extract_domain(r) = d}

\* The indices of the first occurrence of each text of s.
FirstIndices(s) == {i \in 1..Len(s) : \A j \in 1..(i - 1) : s[j] # s[i]}

\* C1: the hash deduplicator's output holds each distinct text of its input
\* exactly once, and is the input restricted to the first occurrence of each
\* text, in input order.
C1_HashDedupFirstOccurrences ==
    Completed("hash") =>
        /\ Len(hash_out) = Cardinality(Range(all_rules))
        /\ \A i, j \in 1..Len(hash_out) : i # j => hash_out[i] # hash_out[j]
        /\ \E f \in [1..Len(hash_out) -> FirstIndices(all_rules)] :
               /\ \A i, j \in 1..Len(hash_out) : i < j => f[i] < f[j]
               /\ \A i \in 1..Len(hash_out) : hash_out[i] = all_rules[f[i]]

\* A duplicate was removed from between two other texts' first occurrences.
C1_Witness ==
    /\ Completed("hash")
    /\ Len(hash_out) >= 2
    /\ Len(hash_out) < Len(all_rules)
    /\ all_rules[1] = all_rules[Len(all_rules)]

\* C2: after the domain subsumption reducer no two output rules resolve to
\* the same domain, and every domain of the input is still a domain of the
\* output.
C2_OneRulePerDomain ==
    Completed("domain") =>
        /\ \A i, j \in 1..Len(domain_out) :
               (i # j /\ HasDomain(domain_out[i]) /\ HasDomain(domain_out[j]))
                   => _extract_domain(domain_out[i]) # _extract_domain(domain_out[j])
        /\ DomainsOf(domain_out) = DomainsOf(hash_out)

\* Two rules of one domain came in beside a rule of another domain.
C2_Witness ==
    /\ Completed("domain")
    /\ Len(domain_out) < Len(hash_out)
    /\ Cardinality(DomainsOf(domain_out)) >= 2

\* C3: when the rules of one domain include a "||domain^" rule and a hosts or
\* plain-domain rule, none containing "*", the survivor of hash dedup and
\* domain subsumption is the "||" rule, in whatever order they arrive.
C3_AdblockRuleSurvives ==
    Completed("domain") =>
        \A d \in DomainsOf(all_rules) :
            LET group == RulesFor(all_rules, d)
            IN  (/\ \E r \in group : StartsWith(r, <<"|", "|">>)
                 /\ \E r \in group : ~StartsWith(r, <<"|", "|">>)
                 /\ \A r \in group : ~Contains(r, <<"*">>))
                    => \A s \in RulesFor(domain_out, d) : StartsWith(s, <<"|", "|">>)

\* a is more general than b in the ordering of the generality rules: the
\* first of "contains *", "is a || rule", "is shorter" that tells them apart
\* decides.
MoreGeneral(a, b) ==
    IF Contains(a, <<"*">>) # Contains(b, <<"*">>) THEN Contains(a, <<"*">>)
    ELSE IF StartsWith(a, <<"|", "|">>) # StartsWith(b, <<"|", "|">>)
    THEN StartsWith(a, <<"|", "|">>)
    ELSE Len(a) < Len(b)

\* C4: the survivor of each same-domain group is the group's most general
\* rule (the earliest of them when several are indistinguishable); a rule
\* containing "*" is never displaced by one without.
C4_MostGeneralSurvives ==
    Completed("domain") =>
        \A d \in DomainsOf(hash_out) :
            \A s \in RulesFor(domain_out, d) :
                /\ \A r \in RulesFor(hash_out, d) : ~MoreGeneral(r, s)
                /\ \A i, j \in 1..Len(hash_out) :
                       (/\ hash_out[j] = s
                        /\ i < j
                        /\ hash_out[i] \in RulesFor(hash_out, d))
                           => MoreGeneral(s, hash_out[i])

\* a is d with one or more leading labels stripped.
IsStrictAncestor(a, d) == Len(a) < Len(d) /\ EndsWith(d, <<".">> \o a)

\* No domain of rules is a strict ancestor of another domain of rules.
NoAncestorPair(rules) ==
    \A a, d \in DomainsOf(rules) : ~IsStrictAncestor(a, d)

\* C5 as stated: after the subdomain tree optimizer stage, on any input, no two
\* surviving domain-bearing rules are ancestor and descendant.
C5_NoAncestorPairAnyInput ==
    Completed("subdomain") => NoAncestorPair(deduplicated_rules)

\* C5 as amended: the same, for an input of at least the threshold number of
\* rules (below it the stage returns its input as it is).
C5_NoAncestorPairAtThreshold ==
    (Completed("subdomain") /\ Len(domain_out) >= SUBDOMAIN_MIN_RULES)
        => NoAncestorPair(deduplicated_rules)

\* The stage ran on an input that held an ancestor and its descendant.
C5_Witness ==
    /\ Completed("subdomain")
    /\ Len(domain_out) >= SUBDOMAIN_MIN_RULES
    /\ ~NoAncestorPair(domain_out)

\* The sequences that hold the elements of s in another order.
PermutationsOf(s) ==
    {[i \in 1..Len(s) |-> s[f[i]]] : f \in SetOrders(1..Len(s))}

\* C6: when the subdomain tree optimizer runs, a domain-bearing rule of its
\* input is dropped iff a strict ancestor of its domain is a domain of the
\* input, and every permutation of the input leaves the same set of rules.
C6_DroppedIffAncestorInInput ==
    (Completed("subdomain") /\ Len(domain_out) >= SUBDOMAIN_MIN_RULES) =>
        /\ \A r \in Range(domain_out) :
               HasDomain(r) =>
                   ((r \notin Range(deduplicated_rules))
                        <=> \E a \in DomainsOf(domain_out) :
                                IsStrictAncestor(a, _extract_domain(r)))
        /\ \A p \in PermutationsOf(domain_out) :
               \A result \in _subdomain_optimize(p) :
                   Range(result) = Range(deduplicated_rules)

\* The stage ran and dropped a rule that came before its ancestor's rule.
C6_Witness ==
    /\ Completed("subdomain")
    /\ Len(domain_out) >= SUBDOMAIN_MIN_RULES
    /\ \E i, j \in 1..Len(domain_out) :
           /\ i < j
           /\ HasDomain(domain_out[i])
           /\ HasDomain(domain_out[j])
           /\ IsStrictAncestor(_extract_domain(domain_out[j]), _extract_domain(domain_out[i]))
           /\ domain_out[i] \notin Range(deduplicated_rules)
           /\ domain_out[j] \in Range(deduplicated_rules)

\* The rules of a sequence that have no domain, in order.
DomainLess(rules) == FilterSeq(rules, {r \in Range(rules) : ~HasDomain(r)})

\* C7: the rules without a domain pass through the domain subsumption reducer
\* and the subdomain tree optimizer unchanged: the same texts, as often, in the
\* same relative order.
C7_DomainLessPassThrough ==
    /\ Completed("domain") => DomainLess(domain_out) = DomainLess(hash_out)
    /\ Completed("subdomain") => DomainLess(deduplicated_rules) = DomainLess(domain_out)

\* Both stages ran and moved rules, with two domain-less rules among them.
C7_Witness ==
    /\ Completed("subdomain")
    /\ Len(domain_out) >= SUBDOMAIN_MIN_RULES
    /\ Len(DomainLess(deduplicated_rules)) >= 2
    /\ domain_out # hash_out

\* The printable ASCII characters from code point 32 to 126, without the
\* grave accent (96), which no text of the model holds.
AsciiPrintable ==
    <<
      " ","!","\"","#","$","%","&","'","(",")","*","+",",","-",".","/",
      "0","1","2","3","4","5","6","7","8","9",":",";","<","=",">","?",
      "@","A","B","C","D","E","F","G","H","I","J","K","L","M","N","O",
      "P","Q","R","S","T","U","V","W","X","Y","Z","[","\\","]","^","_",
      "a","b","c","d","e","f","g","h","i","j","k","l","m","n","o",
      "p","q","r","s","t","u","v","w","x","y","z","{","|","}","~" >>

\* ord(c), for the characters rule texts are made of
Ord(c) ==
    IF c = "\t" THEN 9
    ELSE LET i == CHOOSE k \in 1..Len(AsciiPrintable) : AsciiPrintable[k] = c
         IN  IF i <= 64 THEN 31 + i ELSE 32 + i

\* a < b for Python strings: by code point, a proper prefix first
RECURSIVE StrLess(_, _)
StrLess(a, b) ==
    IF b = <<>> THEN FALSE
    ELSE IF a = <<>> THEN TRUE
    ELSE IF a[1] # b[1] THEN Ord(a[1]) < Ord(b[1])
    ELSE StrLess(Tail(a), Tail(b))

\* The order the final ordering is stated to have: r may come right before s.
PriorityThenLengthThenText(r, s) ==
    \/ get_priority_score(r) > get_priority_score(s)
    \/ /\ get_priority_score(r) = get_priority_score(s)
       /\ Len(r) < Len(s)
    \/ /\ get_priority_score(r) = get_priority_score(s)
       /\ Len(r) = Len(s)
       /\ (r = s \/ StrLess(r, s))

\* C8 as stated: with both sort keys enabled, the limiter's output is ordered
\* by priority score descending, then text length ascending, then text.
C8_SortedByPriorityThenLength ==
    Completed("limit") =>
        \A i \in 1..(Len(optimized_rules) - 1) :
            PriorityThenLengthThenText(optimized_rules[i], optimized_rules[i + 1])

\* The bucket a rule is put in: adblock, hosts, domain (or none).
BucketRank(r) ==
    IF IsAdblockRule(r) THEN 1 ELSE IF IsHostsRule(r) THEN 2
    ELSE IF IsDomainRule(r) THEN 3 ELSE 4

\* The place of x in a sequence that holds it.
IndexIn(s, x) == CHOOSE i \in 1..Len(s) : s[i] = x

\* r is merged before s: an earlier bucket, or the same bucket and earlier in
\* the limiter's input.
MergedBefore(r, s) ==
    \/ BucketRank(r) < BucketRank(s)
    \/ /\ BucketRank(r) = BucketRank(s)
       /\ IndexIn(quality_out, r) < IndexIn(quality_out, s)

\* C8 as amended: the limiter's output is ordered by text length ascending,
\* then priority score descending, and rules equal in both keep the order in
\* which the buckets were merged (adblock, hosts, domain, each in input order).
C8_SortedByLengthThenPriority ==
    Completed("limit") =>
        \A i \in 1..(Len(optimized_rules) - 1) :
            LET r == optimized_rules[i]
                s == optimized_rules[i + 1]
            IN  \/ Len(r) < Len(s)
                \/ /\ Len(r) = Len(s)
                   /\ get_priority_score(r) > get_priority_score(s)
                \/ /\ Len(r) = Len(s)
                   /\ get_priority_score(r) = get_priority_score(s)
                   /\ MergedBefore(r, s)

\* The sort moved a shorter rule of lower score in front of a longer rule of
\* higher score that was merged before it.
C8_Witness ==
    /\ Completed("limit")
    /\ \E i \in 1..(Len(optimized_rules) - 1) :
           /\ Len(optimized_rules[i]) < Len(optimized_rules[i + 1])
           /\ get_priority_score(optimized_rules[i]) < get_priority_score(optimized_rules[i + 1])
           /\ MergedBefore(optimized_rules[i + 1], optimized_rules[i])

\* The global cap cuts nothing off the merged buckets of rules.
GlobalCapIdle(rules) ==
    Len(Take(adblock_rules(rules), MAX_ADBLOCK_RULES))
    + Len(Take(hosts_rules(rules), MAX_HOSTS_RULES))
    + Len(Take(domain_rules(rules), MAX_DOMAIN_RULES)) <= MAX_TOTAL_RULES

\* The first cap rules of a bucket in the configured sort order.
FirstInSortOrder(bucket, cap) == Range(Take(SortByLength(SortByPriority(bucket)), cap))

\* C9: when a bucket holds more rules than its cap, exactly cap rules of it
\* survive the limiter, and they are the first cap rules of the bucket in the
\* configured sort order.
C9_CapKeepsFirstInSortOrder ==
    (Completed("limit") /\ GlobalCapIdle(quality_out)) =>
        /\ Len(adblock_rules(quality_out)) > MAX_ADBLOCK_RULES =>
               /\ Len(adblock_rules(optimized_rules)) = MAX_ADBLOCK_RULES
               /\ Range(adblock_rules(optimized_rules))
                      = FirstInSortOrder(adblock_rules(quality_out), MAX_ADBLOCK_RULES)
        /\ Len(hosts_rules(quality_out)) > MAX_HOSTS_RULES =>
               /\ Len(hosts_rules(optimized_rules)) = MAX_HOSTS_RULES
               /\ Range(hosts_rules(optimized_rules))
                      = FirstInSortOrder(hosts_rules(quality_out), MAX_HOSTS_RULES)
        /\ Len(domain_rules(quality_out)) > MAX_DOMAIN_RULES =>
               /\ Len(domain_rules(optimized_rules)) = MAX_DOMAIN_RULES
               /\ Range(domain_rules(optimized_rules))
                      = FirstInSortOrder(domain_rules(quality_out), MAX_DOMAIN_RULES)

\* The caps hold of a list of rules.
WithinCaps(rules) ==
    /\ Len(adblock_rules(rules)) <= MAX_ADBLOCK_RULES
    /\ Len(hosts_rules(rules)) <= MAX_HOSTS_RULES
    /\ Len(domain_rules(rules)) <= MAX_DOMAIN_RULES
    /\ Len(rules) <= MAX_TOTAL_RULES

\* C10: the limiter's output, and the final output after the secondary
\* optimizer, hold at most MAX_ADBLOCK_RULES adblock rules, MAX_HOSTS_RULES
\* hosts rules, MAX_DOMAIN_RULES plain-domain rules and MAX_TOTAL_RULES rules.
C10_CapsEnforced ==
    /\ Completed("limit") => WithinCaps(optimized_rules)
    /\ Completed("secondary") => WithinCaps(final_rules)

\* A bucket came in over its cap and the merged buckets over the global cap.
C10_Witness ==
    /\ Completed("secondary")
    /\ ~WithinCaps(quality_out)
    /\ ~GlobalCapIdle(quality_out)
    /\ final_rules # <<>>

\* No cap cuts anything off: every bucket of rules is within its cap and the
\* merged buckets are within the global cap.
NoCapBinding(rules) ==
    /\ Len(adblock_rules(rules)) <= MAX_ADBLOCK_RULES
    /\ Len(hosts_rules(rules)) <= MAX_HOSTS_RULES
    /\ Len(domain_rules(rules)) <= MAX_DOMAIN_RULES
    /\ Len(adblock_rules(rules)) + Len(hosts_rules(rules)) + Len(domain_rules(rules))
           <= MAX_TOTAL_RULES

\* C11: every rule that enters the category limiter is put in a bucket (a
\* generic rule written between slashes that does not start with "|" in the
\* adblock bucket), so that when no cap is binding the limiter's output holds
\* every rule of its input.
C11_NoRuleLostByPartition ==
    (Completed("limit") /\ NoCapBinding(quality_out)) =>
        /\ \A r \in Range(quality_out) : r \in Range(optimized_rules)
        /\ \A r \in Range(quality_out) :
               (StartsWith(r, <<"/">>) /\ EndsWith(r, <<"/">>))
                   => r \in Range(adblock_rules(quality_out))

\* The lists among lists that hold the text r.
ListsHolding(lists, r) == {b \in 1..Len(lists) : r \in Range(lists[b])}

\* C12: every rule that survives the category limiter is in exactly one of
\* the limiter's three buckets (adblock, hosts, domain), and every rule handed
\* to the output writer is in exactly one of the three lists it writes.
C12_ExactlyOneBucket ==
    /\ Completed("limit") =>
           \A r \in Range(optimized_rules) :
               Cardinality(ListsHolding(<<adblock_rules(quality_out),
                                          hosts_rules(quality_out),
                                          domain_rules(quality_out)>>, r)) = 1
    /\ Completed("output") =>
           \A r \in Range(final_rules) : Cardinality(ListsHolding(saved, r)) = 1

\* The limiter kept rules of two buckets and had a rule of no bucket in its
\* input.
C12_Witness ==
    /\ Completed("limit")
    /\ \E r, t \in Range(optimized_rules) : BucketRank(r) < BucketRank(t)
    /\ \E r \in Range(quality_out) : BucketRank(r) = 4

\* A hosts entry as the line classifier defines it: "0.0.0.0 " or
\* "127.0.0.1 " followed by a valid domain.
IsHostsEntry(r) ==
    /\ StartsWithHostsPrefix(r)
    /\ Len(SplitWhitespace(r)) >= 2
    /\ is_valid_domain(SplitWhitespace(r)[2])

\* C13: the places that re-derive a rule's category from its text agree: a
\* rule whose whole text matches the domain grammar (a plain domain for
\* _extract_domain) is in the domain bucket of the limiter and in the writer's
\* domain list, and a rule is in the hosts bucket or list only if it is a
\* hosts entry.
C13_CategoriesAgree ==
    /\ Completed("limit") =>
           \A r \in Range(optimized_rules) :
               /\ (DOMAIN_PATTERN(r) /\ _extract_domain(r) = r)
                      => r \in Range(domain_rules(quality_out))
               /\ r \in Range(hosts_rules(quality_out)) => IsHostsEntry(r)
    /\ Completed("output") =>
           \A r \in Range(final_rules) :
               /\ (DOMAIN_PATTERN(r) /\ _extract_domain(r) = r) => r \in Range(saved[3])
               /\ r \in Range(saved[2]) => IsHostsEntry(r)

\* No rule of a list matches a pattern of the expired-pattern pass.
NoneExpired(rules) == \A r \in Range(rules) : ~MatchesExpired(r)

\* C14 as stated: with secondary optimization and expired-pattern removal
\* enabled, no rule of the secondary optimizer's output matches an expired
\* pattern.
C14_NoExpiredInOutput ==
    (Completed("secondary") /\ ENABLE_SECONDARY_OPTIMIZATION /\ REMOVE_EXPIRED_DOMAINS)
        => NoneExpired(final_rules)

\* C14 as amended: the same, when the secondary optimizer is handed at least
\* its minimum number of rules (below it, it returns its input as it is).
C14_NoExpiredAtThreshold ==
    (/\ Completed("secondary")
     /\ ENABLE_SECONDARY_OPTIMIZATION
     /\ REMOVE_EXPIRED_DOMAINS
     /\ Len(optimized_rules) >= SECONDARY_MIN_RULES)
        => NoneExpired(final_rules)

\* The secondary optimizer ran on a list that held a rule matching an expired
\* pattern and a rule matching none.
C14_Witness ==
    /\ Completed("secondary")
    /\ Len(optimized_rules) >= SECONDARY_MIN_RULES
    /\ ~NoneExpired(optimized_rules)
    /\ final_rules # <<>>

\* The list SecondaryOptimizer.optimize hands to the merge pass.
MergeInput ==
    IF REMOVE_EXPIRED_DOMAINS THEN _remove_expired_domains(optimized_rules)
    ELSE optimized_rules

\* The secondary optimizer has run and its merge pass did not return early.
MergeRan ==
    /\ Completed("secondary")
    /\ ENABLE_SECONDARY_OPTIMIZATION
    /\ MERGE_SIMILAR_RULES
    /\ Len(optimized_rules) >= SECONDARY_MIN_RULES
    /\ Len(MergeInput) >= MERGE_MIN_RULES

\* The base domain of a domain-bearing rule: the last two labels of its domain.
BaseOf(r) == BaseDomain(_extract_domain(r))

\* C15 as stated: after the merge pass has run, at most one domain-bearing
\* rule survives per base domain.
C15_OneRulePerBaseDomain ==
    MergeRan =>
        \A i, j \in 1..Len(final_rules) :
            (i # j /\ HasDomain(final_rules[i]) /\ HasDomain(final_rules[j]))
                => BaseOf(final_rules[i]) # BaseOf(final_rules[j])

\* The kinds of domain-bearing rule the merge pass keeps apart.
MergeKinds == {"adblock", "hosts", "domain"}

\* The rules of a list of one kind and one base domain, in order.
KindGroup(rules, kind, base) ==
    FilterSeq(rules, {r \in Range(rules) : MergeGroup(r) = kind /\ BaseOf(r) = base})

\* C15 as amended: the merge pass groups the domain-bearing rules by kind
\* ("||domain^" rule, hosts entry, plain domain) and base domain, and leaves of
\* each group one rule, the first of the group that is minimal under (text
\* length, contains "*" before not); at most one rule survives per kind and
\* base domain.
C15_OneRulePerKindAndBaseDomain ==
    MergeRan =>
        \A kind \in MergeKinds :
            \A base \in {BaseOf(r) : r \in {x \in Range(MergeInput) : HasDomain(x)}} :
                LET group == KindGroup(MergeInput, kind, base)
                    kept  == KindGroup(final_rules, kind, base)
                IN  IF group = <<>> THEN kept = <<>>
                    ELSE /\ Len(kept) = 1
                         /\ \E i \in 1..Len(group) :
                                /\ kept[1] = group[i]
                                /\ \A j \in 1..Len(group) : ~MergeKeyLess(group[j], group[i])
                                /\ \A k \in 1..(i - 1) :
                                       \E j \in 1..Len(group) : MergeKeyLess(group[j], group[k])

\* The merge pass ran on two rules of one kind and one base domain and kept
\* one of them.
C15_Witness ==
    /\ MergeRan
    /\ \E kind \in MergeKinds :
           \E r \in Range(MergeInput) :
               /\ HasDomain(r)
               /\ Len(KindGroup(MergeInput, kind, BaseOf(r))) >= 2
               /\ Len(KindGroup(final_rules, kind, BaseOf(r))) = 1

\* C16: the merge pass neither removes nor alters a rule without a domain:
\* the domain-less rules of its output are those of its input, as often and in
\* the same order.
C16_MergeKeepsDomainLess ==
    (Completed("secondary") /\ Len(optimized_rules) >= SECONDARY_MIN_RULES)
        => DomainLess(final_rules) = DomainLess(MergeInput)

\* The merge pass ran on a domain-less rule and a rule with a domain.
C16_Witness ==
    /\ MergeRan
    /\ DomainLess(MergeInput) # <<>>
    /\ DomainLess(MergeInput) # MergeInput
    /\ final_rules # MergeInput

\* A list holds the same rules as another, as many.
SameRules(a, b) == Range(a) = Range(b) /\ Len(a) = Len(b)

\* C17: the stages from the hash deduplicator to the secondary optimizer,
\* applied to the final list of a first application, return the same rules:
\* nothing more is removed.  The same holds of the deduplicator alone, applied
\* to its own result (which can be long enough for the subdomain tree
\* optimizer to run a second time).
C17_Idempotent ==
    Completed("secondary") =>
        /\ \A again \in ProcessRules(final_rules) : SameRules(again, final_rules)
        /\ \A again \in deduplicate(deduplicated_rules) :
               SameRules(again, deduplicated_rules)

\* The first application removed rules and left two or more, and the
\* subdomain tree optimizer ran and left enough rules to run again.
C17_Witness ==
    /\ Completed("secondary")
    /\ Len(final_rules) >= 2
    /\ Len(final_rules) < Len(all_rules)
    /\ Len(domain_out) >= SUBDOMAIN_MIN_RULES
    /\ Len(deduplicated_rules) >= SUBDOMAIN_MIN_RULES

(***************************************************************************)
(* Properties of the run with its timeout checks and alarm (SpecProcess).  *)
(***************************************************************************)
\* The result of a stage of process that hands rules on.
OutputOf(stage) ==
    IF stage = "parse" THEN all_rules
    ELSE IF stage = "dedup" THEN deduplicated_rules
    ELSE IF stage = "optimize" THEN optimized_rules
    ELSE final_rules

\* The rules the run has written: the three lists of save_results, or
\* dist/partial_rules.txt.
HandedOver ==
    IF saved # <<>> THEN saved[1] \o saved[2] \o saved[3] ELSE partial_rules

\* C18: when a timeout check between two stages finds the deadline passed,
\* with the parse or a later stage completed, the rules of the last completed
\* stage's result are handed over (written out).
C18_LastStageOutputHandedOver ==
    (/\ pc = "stopped"
     /\ timed_out
     /\ abandoned = ""
     /\ Len(started) >= 2)
        => SameRules(HandedOver, OutputOf(started[Len(started)]))

\* C19: the stages of process start in the order download, parse, dedup,
\* optimize, secondary, output, and once a timeout check has returned True no
\* stage starts any more.
C19_NoStageAfterTimeout ==
    [][/\ timed_out => (timed_out' /\ started' = started)
       /\ \E n \in 0..Len(StageOrder) : started' = SubSeq(StageOrder, 1, n)]_vars

\* The check after the deduplicator found the deadline passed: the run
\* stopped with the deduplicator's result made and the optimizer not entered.
C19_Witness ==
    /\ pc = "stopped"
    /\ timed_out
    /\ abandoned = ""
    /\ started = <<"download", "parse", "dedup">>
    /\ deduplicated_rules # <<>>
    /\ quality_out = <<>>
    /\ returned = "False"

\* C20: no stage is left part-way because of the deadline: every stage that
\* has started has run, or runs, to its end.
C20_NoStageAbandoned ==
    \A i \in 1..Len(started) : started[i] # abandoned

(***************************************************************************)
(* Properties of the parser.                                               *)
(***************************************************************************)
\* A text has a slash, then another one further on ("/.../").
HasSlashPair(t) ==
    \E i \in 1..Len(t) : \E j \in (i + 1)..Len(t) : t[i] = "/" /\ t[j] = "/"

\* The kinds of line the classifier is said to retain: an Adblock domain
\* rule, an element-hiding rule, a hosts entry, a plain domain, or a generic
\* Adblock rule.
OfRetainedKind(t) ==
    \/ StartsWith(t, <<"|", "|">>) /\ Contains(t, <<"^">>)
    \/ Contains(t, <<"#", "#">>)
    \/ IsHostsEntry(t)
    \/ DOMAIN_PATTERN(t)
    \/ StartsWith(t, <<"|">>)
    \/ HasSlashPair(t)

\* C21: parse_line retains a line only if it is of one of the five kinds;
\* every other line is discarded (parse_line returns None).
C21_UnknownDiscarded ==
    (line # None /\ parsed # None) => OfRetainedKind(parsed)

\* The positions of a line that hold something other than white space.
InkOf(l) == {i \in 1..Len(l) : l[i] \notin {" ", "\t", "\n", "\r", "\f"}}

\* A blank line: nothing but white space.
IsBlankLine(l) == InkOf(l) = {}

\* A comment line: its first character that is not white space is ! or #.
IsCommentLine(l) ==
    \E i \in InkOf(l) : l[i] \in {"!", "#"} /\ \A j \in InkOf(l) : i <= j

\* An over-long line: from its first to its last character that is not white
\* space it is longer than PARSE_MAX_LINE_LENGTH.
IsOverLongLine(l) ==
    \E i \in InkOf(l) :
        \E j \in (i + PARSE_MAX_LINE_LENGTH)..Len(l) : j \in InkOf(l)

IsAdblockDomainRule(r) == StartsWith(r, <<"|", "|">>) /\ HasDomain(r)

\* The score as described: 3, 2 and 1 for a keyword of the high, medium and
\* low list (each once), 2 for an Adblock domain rule, 1 for an
\* element-hiding rule.
DescribedScore(r) ==
    (IF AnyKeyword(HIGH_PRIORITY_KEYWORDS, Lower(r)) THEN 3 ELSE 0)
    + (IF AnyKeyword(MEDIUM_PRIORITY_KEYWORDS, Lower(r)) THEN 2 ELSE 0)
    + (IF AnyKeyword(LOW_PRIORITY_KEYWORDS, Lower(r)) THEN 1 ELSE 0)
    + (IF IsAdblockDomainRule(r) THEN 2
       ELSE IF Contains(r, <<"#", "#">>) THEN 1
       ELSE 0)

\* C23: the score get_priority_score gives a rule is the described score,
\* for every rule handed to the stages.
C23_ScoreAsDescribed ==
    \A r \in Range(all_rules) : get_priority_score(r) = DescribedScore(r)

\* The number of labels of a domain: one more than its dots.
LabelCount(d) == Cardinality({i \in 1..Len(d) : d[i] = "."}) + 1

\* The rejection as described: a text shorter than 3 or longer than 500, or
\* with more than 5 characters among * ^ | # !, or an Adblock ||domain^
\* rule whose domain has more than 5 labels.
DescribedLowQuality(r) ==
    \/ Len(r) < 3
    \/ Len(r) > 500
    \/ Cardinality({i \in 1..Len(r) : r[i] \in {"*", "^", "|", "#", "!"}}) > 5
    \/ /\ StartsWith(r, <<"|", "|">>)
       /\ Contains(r, <<"^">>)
       /\ LabelCount(AdblockDomainPart(r)) > 5

\* The rules of a list that are at or above the floor set for the run (all
\* of them when the floor is 0), in the order of the list.
AtOrAboveFloor(rules) ==
    FilterSeq(rules, {r \in Range(rules) :
                          min_rule_priority > 0 => get_priority_score(r) >= min_rule_priority})

\* C24: the quality filter rejects a rule iff it is low-quality as described,
\* whatever its score, and keeps the other rules in their order: what the
\* filters hand to the limiter is the rules of their input at or above the
\* floor that are not low-quality, in the input's order.
C24_QualityFilterAsDescribed ==
    Completed("filter") =>
        quality_out =
            FilterSeq(AtOrAboveFloor(deduplicated_rules),
                      {r \in Range(deduplicated_rules) : ~DescribedLowQuality(r)})

\* Of two rules, the filter has rejected the one with a high score and kept
\* the one that scores 0.
C24_Witness ==
    /\ Completed("filter")
    /\ min_rule_priority = 0
    /\ Len(deduplicated_rules) = 2
    /\ \E r \in Range(deduplicated_rules) \ Range(quality_out) :
           get_priority_score(r) >= 3
    /\ \E r \in Range(quality_out) : get_priority_score(r) = 0

\* C25: with MIN_RULE_PRIORITY above 0, no rule of the result of optimize
\* scores below it; with MIN_RULE_PRIORITY 0, the filters remove no rule for
\* its score: every rule handed to optimize that passes the validation and
\* the quality test reaches the limiter.
C25_FloorEnforced ==
    Completed("limit") =>
        /\ min_rule_priority > 0 =>
               \A r \in Range(optimized_rules) :
                   get_priority_score(r) >= min_rule_priority
        /\ min_rule_priority = 0 =>
               \A r \in Range(deduplicated_rules) :
                   (is_valid_rule(r) /\ ~_is_low_quality(r)) => r \in Range(quality_out)

\* With a floor above 0, optimize was handed a rule below the floor that is
\* not low-quality, and has returned another rule.
C25_Witness ==
    /\ Completed("limit")
    /\ min_rule_priority > 0
    /\ optimized_rules # <<>>
    /\ \E r \in Range(deduplicated_rules) :
           /\ get_priority_score(r) < min_rule_priority
           /\ ~_is_low_quality(r)

(***************************************************************************)
(* Properties of the run as a whole.                                       *)
(***************************************************************************)
\* C26: a stage handed an empty list returns an empty list: deduplicate,
\* optimize and the secondary optimizer do, and a run of process whose parse
\* retained no rule goes through every stage, writes three empty lists and
\* returns True.
C26_EmptyInEmptyOut ==
    /\ deduplicate(<<>>) = {<<>>}
    /\ optimize(<<>>) = <<>>
    /\ SecondaryOptimize(<<>>) = <<>>
    /\ (Completed("subdomain") /\ all_rules = <<>>) => deduplicated_rules = <<>>
    /\ (Completed("limit") /\ deduplicated_rules = <<>>) => optimized_rules = <<>>
    /\ (Completed("secondary") /\ optimized_rules = <<>>) => final_rules = <<>>
    /\ (Completed("output") /\ all_rules = <<>>) =>
           /\ saved = << <<>>, <<>>, <<>> >>
           /\ returned = "True"
           /\ abandoned = ""

\* A run of process whose parse retained no rule has gone through its six
\* stages.
C26_Witness ==
    /\ Completed("output")
    /\ all_rules = <<>>
    /\ started = StageOrder

\* The rules of out stand in the order they have in inp.
KeepsOrderOf(out, inp) ==
    \A i, j \in 1..Len(out) :
        i < j => \E k, l \in 1..Len(inp) : k < l /\ inp[k] = out[i] /\ inp[l] = out[j]

\* C27: the list handed to the writer is in the order the limiter's sort
\* gave: the secondary optimizer, its merge pass included, keeps the rules it
\* keeps in the order it was handed them.
C27_SecondaryKeepsOrder ==
    Completed("secondary") => KeepsOrderOf(final_rules, optimized_rules)

\* How many times a text stands in a list.
CountOf(rules, x) == Cardinality({i \in 1..Len(rules) : rules[i] = x})

\* out holds no text more often than inp does (and so no text inp lacks).
SubMultiset(out, inp) ==
    \A x \in Range(out) : CountOf(out, x) <= CountOf(inp, x)

\* C28: every stage after the parse only removes or reorders rules: the
\* result of each stage, and of each pass of the secondary optimizer, is a
\* sub-multiset of what it was handed, so it is no longer, and every final
\* rule is the text of a parsed line.
C28_StagesOnlyRemove ==
    /\ StageIndex(pc) > StageIndex("hash") =>
           SubMultiset(hash_out, all_rules) /\ Len(hash_out) <= Len(all_rules)
    /\ StageIndex(pc) > StageIndex("domain") =>
           SubMultiset(domain_out, hash_out) /\ Len(domain_out) <= Len(hash_out)
    /\ StageIndex(pc) > StageIndex("subdomain") =>
           /\ SubMultiset(deduplicated_rules, domain_out)
           /\ Len(deduplicated_rules) <= Len(domain_out)
    /\ StageIndex(pc) > StageIndex("filter") =>
           /\ SubMultiset(quality_out, deduplicated_rules)
           /\ Len(quality_out) <= Len(deduplicated_rules)
    /\ StageIndex(pc) > StageIndex("limit") =>
           /\ SubMultiset(optimized_rules, quality_out)
           /\ Len(optimized_rules) <= Len(quality_out)
           /\ SubMultiset(_remove_expired_domains(optimized_rules), optimized_rules)
           /\ SubMultiset(_merge_similar_rules(optimized_rules), optimized_rules)
    /\ StageIndex(pc) > StageIndex("secondary") =>
           /\ SubMultiset(final_rules, optimized_rules)
           /\ Len(final_rules) <= Len(optimized_rules)
           /\ Range(final_rules) \subseteq Range(all_rules)

\* A run in which the hash stage and the domain stage have each removed a
\* rule and a rule is left at the end.
C28_Witness ==
    /\ Completed("output")
    /\ Len(hash_out) < Len(all_rules)
    /\ Len(domain_out) < Len(hash_out)
    /\ final_rules # <<>>

\* C29: the subdomain stage loses no coverage: for every domain of its input
\* its result holds a rule of that domain or of a strict ancestor of it.
C29_CoverageKept ==
    Completed("subdomain") =>
        \A d \in DomainsOf(domain_out) :
            \E e \in DomainsOf(deduplicated_rules) : e = d \/ IsStrictAncestor(e, d)

\* The stage ran on a chain of three domains and dropped the lower two: the
\* nearest ancestor of the lowest one is itself dropped.
C29_Witness ==
    /\ Completed("subdomain")
    /\ Len(domain_out) >= SUBDOMAIN_MIN_RULES
    /\ \E d1, d2, d3 \in DomainsOf(domain_out) :
           /\ IsStrictAncestor(d1, d2)
           /\ IsStrictAncestor(d2, d3)
           /\ d1 \in DomainsOf(deduplicated_rules)
           /\ d2 \notin DomainsOf(deduplicated_rules)
           /\ d3 \notin DomainsOf(deduplicated_rules)

\* C30: every rule parse_line retained from which _extract_domain returns a
\* domain has a domain that passes is_valid_domain, so the subdomain stage
\* meets no invalid and no empty domain.
C30_ExtractedDomainsValid ==
    \A r \in Range(all_rules) \cup ({parsed} \ {None}) :
        _extract_domain(r) # None =>
            /\ _extract_domain(r) # <<>>
            /\ is_valid_domain(_extract_domain(r))

\* A text of two lines: the first was retained and has a domain, the second
\* is a hosts line whose domain is not valid and was discarded.
C30_Witness ==
    /\ lines_parsed = 2
    /\ Len(all_rules) = 1
    /\ HasDomain(all_rules[1])
    /\ StartsWithHostsPrefix(line)
    /\ _extract_domain(line) # None
    /\ ~is_valid_domain(_extract_domain(line))
    /\ parsed = None

====
